---- MODULE Spec2Model ----
(***************************************************************************)
(* Model of the sandboxed file manager of Backend/app/api/v1/files.py:     *)
(* get_real_path, browse_directory, upload_files, create_directory,        *)
(* delete_entry and move_or_copy acting on one filesystem.                 *)
(*                                                                         *)
(* A string is a sequence of one-character strings, so that splitting,     *)
(* normalising, joining and prefix tests are computed as the code computes *)
(* them.  A filesystem is a function from canonical absolute paths         *)
(* (sequences of names, <<>> being "/") to nodes.                          *)
(***************************************************************************)
EXTENDS Integers, Sequences, FiniteSets, TLC

VARIABLES fs, last, up, nops, procs

vars == <<fs, last, up, nops, procs>>

(***************************************************************************)
(* Bounds of the model.                                                    *)
(***************************************************************************)
\* how many requests a behaviour holds, an upload counting one for each file
MaxOps == 2
\* how many symbolic links one path resolution follows before it gives up
MaxLinks == 2
\* how deep a recursive copy nests before the kernel refuses the path
MaxCopyDepth == 3
\* how many chunks the byte stream of an uploaded file has
ChunksPerItem == 2

(***************************************************************************)
(* Strings.                                                                *)
(***************************************************************************)
Slash == "/"
Dot == <<".">>
DotDot == <<".", ".">>

\* str.startswith
StartsWith(s, pre) ==
    /\ Len(pre) <= Len(s)
    /\ SubSeq(s, 1, Len(pre)) = pre

\* the `in` operator on strings: sub occurs in s
Contains(s, sub) ==
    \E i \in 0..(Len(s) - Len(sub)) : SubSeq(s, i + 1, i + Len(sub)) = sub

\* str.strip("/")
RECURSIVE LStripSlash(_)
LStripSlash(s) ==
    IF s # <<>> /\ Head(s) = Slash THEN LStripSlash(Tail(s)) ELSE s

RECURSIVE RStripSlash(_)
RStripSlash(s) ==
    IF s # <<>> /\ s[Len(s)] = Slash
    THEN RStripSlash(SubSeq(s, 1, Len(s) - 1))
    ELSE s

StripSlash(s) == RStripSlash(LStripSlash(s))

\* str.split("/")
RECURSIVE SplitAcc(_, _, _)
SplitAcc(s, cur, acc) ==
    IF s = <<>> THEN Append(acc, cur)
    ELSE IF Head(s) = Slash
         THEN SplitAcc(Tail(s), <<>>, Append(acc, cur))
         ELSE SplitAcc(Tail(s), Append(cur, Head(s)), acc)

Split(s) == SplitAcc(s, <<>>, <<>>)

\* "/".join(comps)
RECURSIVE JoinSlash(_)
JoinSlash(comps) ==
    IF comps = <<>> THEN <<>>
    ELSE IF Len(comps) = 1 THEN comps[1]
         ELSE comps[1] \o <<Slash>> \o JoinSlash(Tail(comps))

Front(s) == SubSeq(s, 1, Len(s) - 1)
Last(s) == s[Len(s)]

(***************************************************************************)
(* os.path.normpath and pathlib's pure paths.                              *)
(***************************************************************************)
\* the loop of posixpath.normpath over the components
RECURSIVE NormComps(_, _, _)
NormComps(comps, abs, acc) ==
    IF comps = <<>> THEN acc
    ELSE LET comp == Head(comps) IN
         IF comp = <<>> \/ comp = Dot
         THEN NormComps(Tail(comps), abs, acc)
         ELSE IF \/ comp # DotDot
                 \/ (~abs /\ acc = <<>>)
                 \/ (acc # <<>> /\ Last(acc) = DotDot)
              THEN NormComps(Tail(comps), abs, Append(acc, comp))
              ELSE IF acc # <<>>
                   THEN NormComps(Tail(comps), abs, Front(acc))
                   ELSE NormComps(Tail(comps), abs, acc)

normpath(path) ==
    IF path = <<>> THEN Dot
    ELSE LET abs == StartsWith(path, <<Slash>>)
             body == JoinSlash(NormComps(Split(path), abs, <<>>))
             res == IF abs THEN <<Slash>> \o body ELSE body
         IN  IF res = <<>> THEN Dot ELSE res

\* Path(s): the anchor and the parts; empty and "." parts are dropped, ".." is kept
PathOf(s) ==
    [abs |-> StartsWith(s, <<Slash>>),
     parts |-> SelectSeq(Split(s), LAMBDA c : c # <<>> /\ c # Dot)]

\* str(Path)
PathStr(p) ==
    IF p.abs THEN <<Slash>> \o JoinSlash(p.parts)
    ELSE IF p.parts = <<>> THEN Dot ELSE JoinSlash(p.parts)

\* Path.joinpath / the "/" operator: an absolute right operand replaces the left
PathJoin(p, q) ==
    IF q.abs THEN q ELSE [abs |-> p.abs, parts |-> p.parts \o q.parts]

AbsPath(parts) == [abs |-> TRUE, parts |-> parts]

\* Path.parents of an absolute path
Parents(parts) == {SubSeq(parts, 1, n) : n \in 0..(Len(parts) - 1)}

IsPrefix(p, q) == Len(p) <= Len(q) /\ SubSeq(q, 1, Len(p)) = p

(***************************************************************************)
(* The filesystem.                                                         *)
(***************************************************************************)
DirNode == [kind |-> "dir", data |-> <<>>, target |-> <<>>]
FileNode(d) == [kind |-> "file", data |-> d, target |-> <<>>]
LinkNode(t) == [kind |-> "link", data |-> <<>>, target |-> t]

\* the result of a resolution that fails (ENOENT, ENOTDIR, ELOOP)
NoPath == <<<<"#nopath">>>>

IsDirAt(f, p) == p \in DOMAIN f /\ f[p].kind = "dir"
IsFileAt(f, p) == p \in DOMAIN f /\ f[p].kind = "file"
IsLinkAt(f, p) == p \in DOMAIN f /\ f[p].kind = "link"

ParentOf(p) == IF p = <<>> THEN <<>> ELSE Front(p)

\* Path resolution from the canonical path cur through the components rest.
\* strict is the kernel's walk (stat, open, scandir): every component passed
\* through is an existing directory.  Not strict is os.path.realpath, which
\* appends what does not exist.
RECURSIVE Walk(_, _, _, _, _)
Walk(f, cur, rest, strict, fuel) ==
    IF rest = <<>> THEN cur
    ELSE LET seg == Head(rest)
             tl == Tail(rest)
         IN  IF strict /\ ~IsDirAt(f, cur) THEN NoPath
             ELSE IF seg = DotDot THEN Walk(f, ParentOf(cur), tl, strict, fuel)
             ELSE LET p == Append(cur, seg) IN
                  IF IsLinkAt(f, p)
                  THEN IF fuel = 0 THEN NoPath
                       ELSE Walk(f, <<>>, f[p].target \o tl, strict, fuel - 1)
                  ELSE Walk(f, p, tl, strict, fuel)

\* Path.resolve() of an absolute path
Resolve(f, p) == AbsPath(Walk(f, <<>>, p.parts, FALSE, MaxLinks))

\* the canonical path os.stat reaches (the last link followed), or NoPath
StatPath(f, p) == Walk(f, <<>>, p.parts, TRUE, MaxLinks)

\* the canonical path os.lstat reaches (the last link not followed), or NoPath
LStatPath(f, p) ==
    IF p.parts = <<>> \/ Last(p.parts) = DotDot THEN StatPath(f, p)
    ELSE LET par == Walk(f, <<>>, Front(p.parts), TRUE, MaxLinks) IN
         IF par = NoPath \/ ~IsDirAt(f, par) THEN NoPath
         ELSE Append(par, Last(p.parts))

\* Path.exists(), Path.is_dir(), Path.is_file(): all follow links
Exists(f, p) == StatPath(f, p) \in DOMAIN f
IsDir(f, p) == IsDirAt(f, StatPath(f, p))
IsFile(f, p) == IsFileAt(f, StatPath(f, p))

Children(f, d) == {p \in DOMAIN f : Len(p) = Len(d) + 1 /\ IsPrefix(d, p)}
Under(f, d) == {p \in DOMAIN f : IsPrefix(d, p)}

\* f without the entries whose path is in gone
Without(f, gone) == [p \in (DOMAIN f) \ gone |-> f[p]]

\* f with the entries of g added or replaced
With(f, g) == [p \in (DOMAIN f) \cup (DOMAIN g) |-> IF p \in DOMAIN g THEN g[p] ELSE f[p]]

(***************************************************************************)
(* Configuration.                                                          *)
(***************************************************************************)
\* settings.MEDIA_ROOT_PATH, taken from the working directory "/"
MEDIA_ROOT_PATH == AbsPath(<<<<"m">>>>)

(***************************************************************************)
(* get_real_path.                                                          *)
(***************************************************************************)
Ok(p) == [status |-> 200, detail |-> "", path |-> p]
HTTPException(code, text) == [status |-> code, detail |-> text, path |-> NoPath]

\* get_real_path without the lexical check of step 2
get_real_path_unchecked(f, user_path) ==
    LET safe_path == PathOf(normpath(user_path))
        full_path == Resolve(f, PathJoin(MEDIA_ROOT_PATH, safe_path))
    IN  IF ~StartsWith(PathStr(full_path), PathStr(Resolve(f, MEDIA_ROOT_PATH)))
        THEN HTTPException(403, "Access Denied: Path traversal detected")
        ELSE IF ~Exists(f, full_path)
        THEN HTTPException(404, "Path does not exist")
        ELSE Ok(full_path.parts)

get_real_path(f, user_path) ==
    LET safe_path == PathOf(normpath(user_path))
        full_path == Resolve(f, PathJoin(MEDIA_ROOT_PATH, safe_path))
    IN  IF safe_path.abs \/ StartsWith(PathStr(safe_path), DotDot)
        THEN HTTPException(400, "Invalid path request")
        ELSE IF ~StartsWith(PathStr(full_path), PathStr(Resolve(f, MEDIA_ROOT_PATH)))
        THEN HTTPException(403, "Access Denied: Path traversal detected")
        ELSE IF ~Exists(f, full_path)
        THEN HTTPException(404, "Path does not exist")
        ELSE Ok(full_path.parts)

(***************************************************************************)
(* Characters: their order and str.lower.                                  *)
(***************************************************************************)
\* the characters of the model in code-point order
CharOrder ==
    <<"\"", "*", "-", ".", "/", "0", "1", "2", "3", "4", "5", "6", "7", "8", "9",
      ":", "<", ">", "?",
      "A", "B", "C", "D", "E", "F", "G", "H", "I", "J", "K", "L", "M",
      "N", "O", "P", "Q", "R", "S", "T", "U", "V", "W", "X", "Y", "Z",
      "\\",
      "a", "b", "c", "d", "e", "f", "g", "h", "i", "j", "k", "l", "m",
      "n", "o", "p", "q", "r", "s", "t", "u", "v", "w", "x", "y", "z",
      "|">>

Ord(c) == CHOOSE i \in DOMAIN CharOrder : CharOrder[i] = c

UpperFirst == Ord("A")
UpperLast == Ord("Z")
CaseShift == Ord("a") - Ord("A")

LowerChar(c) ==
    IF Ord(c) >= UpperFirst /\ Ord(c) <= UpperLast
    THEN CharOrder[Ord(c) + CaseShift]
    ELSE c

\* str.lower
Lower(s) == [i \in DOMAIN s |-> LowerChar(s[i])]

\* s < t on strings
RECURSIVE StrLess(_, _)
StrLess(s, t) ==
    IF t = <<>> THEN FALSE
    ELSE IF s = <<>> THEN TRUE
    ELSE IF Head(s) = Head(t) THEN StrLess(Tail(s), Tail(t))
    ELSE Ord(Head(s)) < Ord(Head(t))

\* the names of a set of paths' last components, ascending
RECURSIVE Ascending(_)
Ascending(names) ==
    IF names = {} THEN <<>>
    ELSE LET least == CHOOSE n \in names : \A o \in names \ {n} : StrLess(n, o)
         IN  <<least>> \o Ascending(names \ {least})

Reverse(s) == [i \in DOMAIN s |-> s[Len(s) + 1 - i]]

\* os.scandir: the names of a directory's entries in an order the operating
\* system chooses; the model has two of them
ScanDir(f, d, asc) ==
    LET names == Ascending({Last(p) : p \in Children(f, d)})
    IN  IF asc THEN names ELSE Reverse(names)

(***************************************************************************)
(* browse_directory.                                                       *)
(***************************************************************************)
FileItem(n, d, sz) == [name |-> n, is_dir |-> d, size |-> sz]

\* the sort key (not x.is_dir, x.name.lower()) of browse_directory, compared
KeyLess(x, y) ==
    IF x.is_dir # y.is_dir THEN x.is_dir
    ELSE StrLess(Lower(x.name), Lower(y.name))

\* list.sort is stable: an item goes after the items whose key is not greater
RECURSIVE InsertStable(_, _)
InsertStable(sorted, x) ==
    IF sorted = <<>> THEN <<x>>
    ELSE IF KeyLess(x, Last(sorted)) THEN Append(InsertStable(Front(sorted), x), Last(sorted))
    ELSE Append(sorted, x)

RECURSIVE SortItems(_)
SortItems(items) ==
    IF items = <<>> THEN <<>>
    ELSE InsertStable(SortItems(Front(items)), Last(items))

Response(code, text) ==
    [status |-> code, detail |-> text, real |-> NoPath, items |-> <<>>]

browse_directory(f, path, asc) ==
    LET r == get_real_path(f, path) IN
    IF r.status # 200 THEN Response(r.status, r.detail)
    ELSE IF ~IsDirAt(f, r.path)
    THEN [Response(400, "Requested path is not a directory") EXCEPT !.real = r.path]
    ELSE LET names == ScanDir(f, r.path, asc)
             st(n) == StatPath(f, AbsPath(Append(r.path, n)))
         IN  IF \E i \in DOMAIN names : st(names[i]) \notin DOMAIN f
             \* entry.stat() of a dangling link raises FileNotFoundError
             THEN [Response(500, "Internal Server Error") EXCEPT !.real = r.path]
             ELSE [status |-> 200, detail |-> "", real |-> r.path,
                   items |-> SortItems(
                       [i \in DOMAIN names |->
                           FileItem(names[i],
                                    f[st(names[i])].kind = "dir",
                                    IF f[st(names[i])].kind = "dir" THEN 0
                                    ELSE Len(f[st(names[i])].data))])]

(***************************************************************************)
(* Filesystem calls.  Each returns the error it raises ("" for none) and   *)
(* the filesystem it leaves.                                               *)
(***************************************************************************)
Done(f) == [err |-> "", fs |-> f]
Raise(e, f) == [err |-> e, fs |-> f]

\* os.mkdir of an absolute path
mkdir(f, parts) ==
    IF parts = <<>> THEN Raise("FileExistsError", f)
    ELSE LET par == StatPath(f, AbsPath(Front(parts)))
             tail == Last(parts)
         IN  IF par = NoPath \/ ~IsDirAt(f, par) THEN Raise("OSError", f)
             ELSE IF tail = DotDot \/ Append(par, tail) \in DOMAIN f
             THEN Raise("FileExistsError", f)
             ELSE Done(With(f, Append(par, tail) :> DirNode))

\* os.makedirs: the missing ancestors first, then the leaf
RECURSIVE makedirs(_, _)
makedirs(f, parts) ==
    IF parts = <<>> THEN Raise("FileExistsError", f)
    ELSE LET head == Front(parts)
             anc == IF head # <<>> /\ ~Exists(f, AbsPath(head))
                    THEN makedirs(f, head)
                    ELSE Done(f)
         IN  IF anc.err = "OSError" THEN anc
             ELSE mkdir(anc.fs, parts)

\* os.symlink
symlink(f, parts, target) ==
    LET r == mkdir(f, parts) IN
    IF r.err # "" THEN r
    ELSE Done(With(f, Append(StatPath(f, AbsPath(Front(parts))), Last(parts)) :> LinkNode(target)))

\* a write that loses what it is given
WriteFileEmpty(f, p, data, full) ==
    LET c == StatPath(f, p) IN
    IF c = NoPath \/ c = <<>> \/ IsDirAt(f, c) THEN Raise("OSError", f)
    ELSE Done(With(f, c :> FileNode(<<>>)))

\* open(path, "wb") and the writes of data; full: the device has no space
\* left, so that the file is created and the first write raises
WriteFile(f, p, data, full) ==
    LET c == StatPath(f, p) IN
    IF c = NoPath \/ c = <<>> \/ IsDirAt(f, c) THEN Raise("OSError", f)
    ELSE IF full THEN Raise("OSError", With(f, c :> FileNode(<<>>)))
    ELSE Done(With(f, c :> FileNode(data)))

\* Path.unlink: removes the entry, a link itself and not what it points to
unlink(f, p) ==
    LET l == LStatPath(f, p) IN
    IF l \notin DOMAIN f \/ IsDirAt(f, l) THEN Raise("OSError", f)
    ELSE Done(Without(f, {l}))

\* a removal of the directory entry alone, which leaves what is below it
rmtree_shallow(f, p) ==
    LET c == StatPath(f, p) IN
    IF ~IsDirAt(f, c) THEN Raise("OSError", f) ELSE Done(Without(f, {c}))

\* shutil.rmtree: refuses a symbolic link; removes what is below the
\* directory and then the directory, which rmdir refuses for "/" and for a
\* path that ends in ".."
rmtree(f, p) ==
    LET l == LStatPath(f, p)
        c == StatPath(f, p)
    IN  IF l \notin DOMAIN f \/ IsLinkAt(f, l) \/ ~IsDirAt(f, c) THEN Raise("OSError", f)
        ELSE IF c = <<>> \/ Last(p.parts) = DotDot
        THEN Raise("OSError", Without(f, Under(f, c) \ {c}))
        ELSE Done(Without(f, Under(f, c)))

\* shutil.copytree(src, dst, symlinks): src a canonical directory.  The entries
\* are listed before dst is made; an entry's error is collected and the copy
\* goes on, to raise at the end.  depth is what is left of the nesting the
\* kernel accepts.
RECURSIVE copytree(_, _, _, _, _, _)
RECURSIVE CopyEntries(_, _, _, _, _, _, _)
copytree(f, src, dst, symlinks, env, depth) ==
    IF depth = 0 THEN Raise("OSError", f)
    ELSE LET names == ScanDir(f, src, env.asc)
             mk == makedirs(f, dst)
         IN  IF mk.err # "" THEN Raise("OSError", mk.fs)
             ELSE CopyEntries(mk.fs, src, dst, names, symlinks, env, depth)

CopyEntries(f, src, dst, names, symlinks, env, depth) ==
    IF names = <<>> THEN Done(f)
    ELSE LET s == Append(src, Head(names))
             d == Append(dst, Head(names))
             t == StatPath(f, AbsPath(s))
             one == IF s \notin DOMAIN f THEN Raise("OSError", f)
                    ELSE IF IsLinkAt(f, s) /\ symlinks THEN symlink(f, d, f[s].target)
                    ELSE IF t \notin DOMAIN f THEN Raise("OSError", f)
                    ELSE IF IsDirAt(f, t) THEN copytree(f, t, d, symlinks, env, depth - 1)
                    ELSE WriteFile(f, AbsPath(d), f[t].data, (env.os = "ENOSPC"))
             rest == CopyEntries(one.fs, src, dst, Tail(names), symlinks, env, depth)
         IN  IF one.err # "" THEN Raise("Error", rest.fs) ELSE rest

\* os.rename on one filesystem
rename(f, src, dst) ==
    LET sl == LStatPath(f, src)
        dpar == StatPath(f, AbsPath(Front(dst.parts)))
        dl == Append(dpar, Last(dst.parts))
    IN  IF \/ src.parts = <<>> \/ dst.parts = <<>>
           \/ Last(src.parts) = DotDot \/ Last(dst.parts) = DotDot
           \/ sl \notin DOMAIN f
           \/ dpar = NoPath \/ ~IsDirAt(f, dpar)
        THEN Raise("OSError", f)
        ELSE IF sl = dl THEN Done(f)
        ELSE IF IsPrefix(sl, dl) THEN Raise("OSError", f)
        ELSE IF dl \in DOMAIN f /\ (IsDirAt(f, sl) \/ IsDirAt(f, dl)) THEN Raise("OSError", f)
        ELSE LET moved == Under(f, sl)
                 kept == Without(f, moved \cup {dl})
             IN  Done(With(kept,
                           [q \in {dl \o SubSeq(p, Len(sl) + 1, Len(p)) : p \in moved} |->
                               f[sl \o SubSeq(q, Len(dl) + 1, Len(q))]]))

\* shutil._destinsrc: os.path.abspath of both, then a prefix test on strings
\* that end in a separator
destinsrc(src, dst) ==
    LET s == normpath(PathStr(src))
        d == normpath(PathStr(dst))
        sep(x) == IF Last(x) = Slash THEN x ELSE Append(x, Slash)
    IN  StartsWith(sep(d), sep(s))

\* a move that copies and leaves the source where it was
shutil_move_keep(f, src, dst, env) ==
    IF IsDir(f, src)
    THEN copytree(f, StatPath(f, src), dst.parts, TRUE, env, MaxCopyDepth)
    ELSE WriteFile(f, dst, f[StatPath(f, src)].data, env.os = "ENOSPC")

\* shutil.move: a rename, and when the rename fails a copy and a removal
shutil_move(f, src, dst, env) ==
    LET rn == rename(f, src, dst)
        sl == LStatPath(f, src)
    IN  IF rn.err = "" THEN rn
        ELSE IF IsLinkAt(f, sl)
        THEN LET mk == symlink(f, dst.parts, f[sl].target) IN
             IF mk.err # "" THEN mk ELSE unlink(mk.fs, src)
        ELSE IF IsDir(f, src)
        THEN IF destinsrc(src, dst) THEN Raise("Error", f)
             ELSE LET cp == copytree(f, StatPath(f, src), dst.parts, TRUE, env, MaxCopyDepth) IN
                  IF cp.err # "" THEN cp ELSE rmtree(cp.fs, src)
        ELSE LET cp == WriteFile(f, dst, f[StatPath(f, src)].data, env.os = "ENOSPC") IN
             IF cp.err # "" THEN cp ELSE unlink(cp.fs, src)

(***************************************************************************)
(* The handlers of mkdir, delete and move_copy.  Each returns the response *)
(* and the filesystem it leaves.  env is what the operating system does:   *)
(* env.os is "ok", "EACCES" (the first change is denied) or "ENOSPC" (file *)
(* data cannot be written); env.asc is the order of os.scandir.            *)
(***************************************************************************)
Result(code, text, f) == [status |-> code, detail |-> text, fs |-> f]

create_directory(f, req, env) ==
    IF \/ Contains(req.folder_name, DotDot)
       \/ Contains(req.folder_name, <<Slash>>)
       \/ Contains(req.folder_name, <<"\\">>)
    THEN Result(400, "Invalid folder name", f)
    ELSE LET parent_dir == get_real_path(f, req.path) IN
    IF parent_dir.status # 200 THEN Result(parent_dir.status, parent_dir.detail, f)
    ELSE IF ~IsDirAt(f, parent_dir.path)
    THEN Result(400, "Target path is not a directory", f)
    ELSE LET new_folder_path == PathJoin(AbsPath(parent_dir.path), PathOf(req.folder_name)) IN
    IF Exists(f, new_folder_path)
    THEN Result(409, "Folder or file with this name already exists", f)
    ELSE IF env.os = "EACCES"
    THEN Result(403, "Permission denied to create folder here", f)
    ELSE LET mk == makedirs(f, new_folder_path.parts) IN
         IF mk.err # "" THEN Result(500, "Error creating folder", mk.fs)
         ELSE Result(200, "Folder created successfully", mk.fs)

delete_entry(f, req, env) ==
    LET base_root == Resolve(f, MEDIA_ROOT_PATH)
        rel == StripSlash(IF req.path = <<>> THEN Dot ELSE req.path)
        real_dir == Resolve(f, PathJoin(base_root, PathOf(rel)))
        target == PathJoin(real_dir, PathOf(req.name))
    IN  IF base_root.parts \notin Parents(real_dir.parts) /\ real_dir # base_root
        THEN Result(400, "Invalid path", f)
        ELSE IF ~Exists(f, target) THEN Result(404, "Target does not exist", f)
        ELSE IF req.is_dir /\ ~IsDir(f, target)
        THEN Result(400, "Target is not a directory", f)
        ELSE IF ~req.is_dir /\ ~IsFile(f, target)
        THEN Result(400, "Target is not a file", f)
        ELSE IF env.os = "EACCES" THEN Result(403, "Permission denied", f)
        ELSE LET rm == IF IsDir(f, target) THEN rmtree(f, target) ELSE unlink(f, target) IN
             IF rm.err # "" THEN Result(500, "Delete failed", rm.fs)
             ELSE Result(200, "Delete successful", rm.fs)

resolve_sub(f, path_str) ==
    LET base_root == Resolve(f, MEDIA_ROOT_PATH)
        rel == StripSlash(IF path_str = <<>> THEN Dot ELSE path_str)
        p == Resolve(f, PathJoin(base_root, PathOf(rel)))
    IN  IF base_root.parts \notin Parents(p.parts) /\ p # base_root
        THEN HTTPException(400, "Invalid path detected")
        ELSE Ok(p.parts)

\* dst.exists(): overwrite is refused
DestinationTaken(f, dst) == Exists(f, dst)

move_or_copy(f, req, env) ==
    LET src_dir == resolve_sub(f, req.src_path)
        dst_dir == resolve_sub(f, req.dst_path)
        src == PathJoin(AbsPath(src_dir.path), PathOf(req.name))
        dst == PathJoin(AbsPath(dst_dir.path), PathOf(req.name))
    IN  IF src_dir.status # 200 THEN Result(src_dir.status, src_dir.detail, f)
        ELSE IF dst_dir.status # 200 THEN Result(dst_dir.status, dst_dir.detail, f)
        ELSE IF ~Exists(f, src) THEN Result(404, "Source file does not exist", f)
        ELSE IF req.is_dir /\ ~IsDir(f, src)
        THEN Result(400, "Source is not a directory", f)
        ELSE IF ~req.is_dir /\ ~IsFile(f, src)
        THEN Result(400, "Source is not a file", f)
        ELSE IF DestinationTaken(f, dst)
        THEN Result(400, "Destination already exists (Overwrite not supported)", f)
        ELSE IF env.os = "EACCES"
        THEN Result(403, "Permission denied during copy/move", f)
        ELSE LET r == IF req.mode = "copy"
                      THEN IF IsDir(f, src)
                           THEN copytree(f, StatPath(f, src), dst.parts, FALSE, env, MaxCopyDepth)
                           ELSE WriteFile(f, dst, f[StatPath(f, src)].data, env.os = "ENOSPC")
                      ELSE shutil_move(f, src, dst, env)
             IN  IF r.err # "" THEN Result(500, "Copy/Move failed", r.fs)
                 ELSE Result(200, "Operation successful", r.fs)

(***************************************************************************)
(* The handlers in two parts, for requests that two server processes       *)
(* handle at the same time over one filesystem: the checks of a handler    *)
(* read the filesystem, and the change the handler makes afterwards finds  *)
(* the filesystem as the other process has left it in between.             *)
(***************************************************************************)
\* the checks passed (status 0); path is what the handler goes on with
Passed(p) == [status |-> 0, detail |-> "", path |-> p]

\* create_directory up to the check new_folder_path.exists()
create_directory_checks(f, req) ==
    IF \/ Contains(req.folder_name, DotDot)
       \/ Contains(req.folder_name, <<Slash>>)
       \/ Contains(req.folder_name, <<"\\">>)
    THEN HTTPException(400, "Invalid folder name")
    ELSE LET parent_dir == get_real_path(f, req.path) IN
    IF parent_dir.status # 200 THEN HTTPException(parent_dir.status, parent_dir.detail)
    ELSE IF ~IsDirAt(f, parent_dir.path)
    THEN HTTPException(400, "Target path is not a directory")
    ELSE LET new_folder_path == PathJoin(AbsPath(parent_dir.path), PathOf(req.folder_name)) IN
    IF Exists(f, new_folder_path)
    THEN HTTPException(409, "Folder or file with this name already exists")
    ELSE Passed(new_folder_path.parts)

\* create_directory from os.makedirs(new_folder_path) on
create_directory_creates(f, new_folder_path, env) ==
    IF env.os = "EACCES"
    THEN Result(403, "Permission denied to create folder here", f)
    ELSE LET mk == makedirs(f, new_folder_path) IN
         IF mk.err # "" THEN Result(500, "Error creating folder", mk.fs)
         ELSE Result(200, "Folder created successfully", mk.fs)

\* delete_entry up to the type checks; target is not resolved
delete_entry_checks(f, req) ==
    LET base_root == Resolve(f, MEDIA_ROOT_PATH)
        rel == StripSlash(IF req.path = <<>> THEN Dot ELSE req.path)
        real_dir == Resolve(f, PathJoin(base_root, PathOf(rel)))
        target == PathJoin(real_dir, PathOf(req.name))
    IN  IF base_root.parts \notin Parents(real_dir.parts) /\ real_dir # base_root
        THEN HTTPException(400, "Invalid path")
        ELSE IF ~Exists(f, target) THEN HTTPException(404, "Target does not exist")
        ELSE IF req.is_dir /\ ~IsDir(f, target)
        THEN HTTPException(400, "Target is not a directory")
        ELSE IF ~req.is_dir /\ ~IsFile(f, target)
        THEN HTTPException(400, "Target is not a file")
        ELSE Passed(target.parts)

\* delete_entry from target.is_dir() of the try block on
delete_entry_removes(f, target, env) ==
    IF env.os = "EACCES" THEN Result(403, "Permission denied", f)
    ELSE LET rm == IF IsDir(f, AbsPath(target)) THEN rmtree(f, AbsPath(target))
                   ELSE unlink(f, AbsPath(target))
         IN  IF rm.err # "" THEN Result(500, "Delete failed", rm.fs)
             ELSE Result(200, "Delete successful", rm.fs)

\* move_or_copy up to the check dst.exists(); src and dst are not resolved
move_or_copy_checks(f, req) ==
    LET src_dir == resolve_sub(f, req.src_path)
        dst_dir == resolve_sub(f, req.dst_path)
        src == PathJoin(AbsPath(src_dir.path), PathOf(req.name))
        dst == PathJoin(AbsPath(dst_dir.path), PathOf(req.name))
    IN  IF src_dir.status # 200 THEN HTTPException(src_dir.status, src_dir.detail)
        ELSE IF dst_dir.status # 200 THEN HTTPException(dst_dir.status, dst_dir.detail)
        ELSE IF ~Exists(f, src) THEN HTTPException(404, "Source file does not exist")
        ELSE IF req.is_dir /\ ~IsDir(f, src)
        THEN HTTPException(400, "Source is not a directory")
        ELSE IF ~req.is_dir /\ ~IsFile(f, src)
        THEN HTTPException(400, "Source is not a file")
        ELSE IF DestinationTaken(f, dst)
        THEN HTTPException(400, "Destination already exists (Overwrite not supported)")
        ELSE Passed(<<src.parts, dst.parts>>)

\* the response of move_or_copy to what its try block did
MoveAnswer(r) ==
    IF r.err # "" THEN Result(500, "Copy/Move failed", r.fs)
    ELSE Result(200, "Operation successful", r.fs)

\* move_or_copy from the try block on; a source that is no longer there makes
\* the copy or the move raise FileNotFoundError
move_or_copy_acts(f, src, dst, req, env) ==
    IF env.os = "EACCES"
    THEN Result(403, "Permission denied during copy/move", f)
    ELSE IF LStatPath(f, src) \notin DOMAIN f \/ ~Exists(f, src)
    THEN Result(500, "Copy/Move failed", f)
    ELSE MoveAnswer(IF req.mode = "copy"
                    THEN IF IsDir(f, src)
                         THEN copytree(f, StatPath(f, src), dst.parts, FALSE, env, MaxCopyDepth)
                         ELSE WriteFile(f, dst, f[StatPath(f, src)].data, env.os = "ENOSPC")
                    ELSE shutil_move(f, src, dst, env))

(***************************************************************************)
(* services/tmdb.py: what the upload uses of it.                           *)
(***************************************************************************)
VIDEO_EXTENSIONS ==
    {<<".", "m", "p", "4">>, <<".", "m", "k", "v">>, <<".", "a", "v", "i">>,
     <<".", "m", "o", "v">>, <<".", "w", "m", "v">>, <<".", "f", "l", "v">>,
     <<".", "w", "e", "b", "m">>, <<".", "m", "4", "v">>}

\* str.rfind, counted from 1; 0 when c does not occur
Rfind(s, c) ==
    IF \E i \in DOMAIN s : s[i] = c
    THEN CHOOSE i \in DOMAIN s : s[i] = c /\ \A j \in DOMAIN s : s[j] = c => j <= i
    ELSE 0

\* os.path.splitext(p)[1]: from the last dot of the last component, unless
\* only dots come before it
splitext_ext(p) ==
    LET sepIndex == Rfind(p, Slash)
        dotIndex == Rfind(p, ".")
    IN  IF dotIndex > sepIndex /\ \E i \in (sepIndex + 1)..(dotIndex - 1) : p[i] # "."
        THEN SubSeq(p, dotIndex, Len(p))
        ELSE <<>>

is_video_file(filename) == Lower(splitext_ext(filename)) \in VIDEO_EXTENSIONS

\* analyze_filename: world.guess is what guessit makes of the name ("title",
\* "notitle"), world.match the official title the lookup returns (<<>> for no
\* match, no key, an error or a result without title), world.poster whether
\* the result carries a poster path
NoTitle == [official_title |-> <<>>, poster_path |-> FALSE]

analyze_filename(world) ==
    IF world.guess = "notitle" THEN NoTitle
    ELSE IF world.match = <<>> THEN NoTitle
    ELSE [official_title |-> world.match, poster_path |-> world.poster]

PosterName == <<"p", "o", "s", "t", "e", "r", ".", "j", "p", "g">>
PosterBytes == <<"poster">>

\* download_poster without the test for a poster that is there
download_poster_again(f, poster_path, save_dir, world) ==
    LET save_path == PathJoin(save_dir, PathOf(PosterName)) IN
    IF ~poster_path THEN [fs |-> f, fetched |-> FALSE]
    ELSE IF world.fetch THEN [fs |-> WriteFile(f, save_path, PosterBytes, FALSE).fs, fetched |-> TRUE]
    ELSE [fs |-> f, fetched |-> TRUE]

\* download_poster: world.fetch is whether the image request answers 200.
\* Returns the filesystem and whether the image was requested.
download_poster(f, poster_path, save_dir, world) ==
    LET save_path == PathJoin(save_dir, PathOf(PosterName)) IN
    IF ~poster_path THEN [fs |-> f, fetched |-> FALSE]
    ELSE IF Exists(f, save_path) THEN [fs |-> f, fetched |-> FALSE]
    ELSE IF world.fetch THEN [fs |-> WriteFile(f, save_path, PosterBytes, FALSE).fs, fetched |-> TRUE]
    ELSE [fs |-> f, fetched |-> TRUE]

(***************************************************************************)
(* upload_files: the body of the loop for one file.                        *)
(***************************************************************************)
IllegalChars == {"\\", "/", ":", "*", "?", "\"", "<", ">", "|"}

Sanitize(title) == SelectSeq(title, LAMBDA c : c \notin IllegalChars)

\* what the loop body leaves: abort (an exception left the loop), the
\* filesystem, the outcome appended to uploaded_details, the path written to,
\* and what was done on the way
ItemResult(ab, f, out, ent, tgt, recog, cl, look, made, fet, ch) ==
    [abort |-> ab, fs |-> f, outcome |-> out, entry |-> ent, target |-> tgt,
     recognized |-> recog, closed |-> cl, lookup |-> look, made_dir |-> made,
     fetched |-> fet, chunks |-> ch]

\* file_path.exists(): the file is skipped
TargetTaken(f, file_path) == Exists(f, file_path)

\* world.raises: guessit raises; world.os = "EACCES": the first change of the
\* filesystem is denied; world.written: the chunks written before a write
\* raises (ChunksPerItem: none does)
upload_item(f, base_destination_dir, filename, stream, world) ==
    LET video == is_video_file(filename)
        a == IF video THEN analyze_filename(world) ELSE NoTitle
        recognized == a.official_title # <<>>
        safe_title == Sanitize(a.official_title)
        new_sub_folder == PathJoin(base_destination_dir, PathOf(safe_title))
        need_dir == recognized /\ ~Exists(f, new_sub_folder)
        mk == IF ~need_dir THEN Done(f)
              ELSE IF world.os = "EACCES" THEN Raise("PermissionError", f)
              ELSE makedirs(f, new_sub_folder.parts)
        final_folder == IF recognized THEN new_sub_folder ELSE base_destination_dir
        file_path == PathJoin(final_folder, PathOf(filename))
        denied == world.os = "EACCES" /\ ~need_dir
        n == IF world.written < Len(stream) THEN world.written ELSE Len(stream)
        wr == IF denied THEN Raise("PermissionError", mk.fs)
              ELSE WriteFile(mk.fs, file_path, SubSeq(stream, 1, n), FALSE)
        dl == download_poster(wr.fs, a.poster_path, final_folder, world)
        tgt == StatPath(mk.fs, file_path)
        ent == LStatPath(mk.fs, file_path)
        looked == video /\ world.guess = "title"
    IN  IF video /\ world.raises
        THEN ItemResult(TRUE, f, "none", NoPath, NoPath, FALSE, FALSE, FALSE, FALSE, FALSE, 0)
        ELSE IF mk.err # ""
        THEN ItemResult(TRUE, mk.fs, "none", NoPath, NoPath, recognized, FALSE, looked, FALSE, FALSE, 0)
        ELSE IF TargetTaken(mk.fs, file_path)
        THEN ItemResult(FALSE, mk.fs, "skipped", ent, tgt, recognized, FALSE, looked, need_dir, FALSE, 0)
        ELSE IF wr.err # ""
        THEN ItemResult(FALSE, wr.fs, "failed", ent, tgt, recognized, TRUE, looked, need_dir, FALSE, 0)
        ELSE IF n < Len(stream)
        THEN ItemResult(FALSE, wr.fs, "failed", ent, tgt, recognized, TRUE, looked, need_dir, FALSE, n)
        ELSE ItemResult(FALSE, dl.fs, "stored", ent, tgt, recognized, TRUE, looked, need_dir, dl.fetched, n)

(***************************************************************************)
(* upload_files for a request of one file, in the steps between which      *)
(* another server process can change the filesystem.                       *)
(***************************************************************************)
\* the request ends here with this response
Stop(code, text, f) ==
    [status |-> code, detail |-> text, path |-> NoPath, fs |-> f,
     folder |-> NoPath, poster |-> FALSE, denied |-> FALSE]

\* upload_files at the check file_path.exists(), mk being what making the
\* title folder did.  A file that is skipped is reported in the details of the
\* success response.
upload_target(mk, final_folder, file_path, poster_path_from_tmdb, denied) ==
    IF mk.err # "" THEN Stop(500, "Unexpected error during upload", mk.fs)
    ELSE IF TargetTaken(mk.fs, file_path) THEN Stop(200, "skipped", mk.fs)
    ELSE [status |-> 0, detail |-> "", path |-> file_path.parts, fs |-> mk.fs,
          folder |-> final_folder.parts, poster |-> poster_path_from_tmdb,
          denied |-> denied]

\* the recognition of upload_files, a being what analyze_filename returned
upload_recognition(f, base_destination_dir, filename, a, new_sub_folder, world) ==
    LET recognized == a.official_title # <<>>
        need_dir == recognized /\ ~Exists(f, new_sub_folder)
        final_folder == IF recognized THEN new_sub_folder ELSE base_destination_dir
    IN  upload_target(IF ~need_dir THEN Done(f)
                      ELSE IF world.os = "EACCES" THEN Raise("PermissionError", f)
                      ELSE makedirs(f, new_sub_folder.parts),
                      final_folder, PathJoin(final_folder, PathOf(filename)),
                      a.poster_path, world.os = "EACCES" /\ ~need_dir)

\* upload_files from the destination r that get_real_path returned
upload_destination(f, r, filename, a, world) ==
    IF r.status # 200 THEN Stop(r.status, r.detail, f)
    ELSE IF ~IsDirAt(f, r.path) THEN Stop(400, "Target path is not a directory", f)
    ELSE IF is_video_file(filename) /\ world.raises
    THEN Stop(500, "Unexpected error during upload", f)
    ELSE upload_recognition(f, AbsPath(r.path), filename, a,
                            PathJoin(AbsPath(r.path), PathOf(Sanitize(a.official_title))),
                            world)

\* upload_files up to the check file_path.exists(): the destination, the
\* recognition and the target path
upload_checks(f, path, filename, world) ==
    upload_destination(f, get_real_path(f, path), filename,
                       IF is_video_file(filename) THEN analyze_filename(world) ELSE NoTitle,
                       world)

\* open(file_path, "wb"): makes the file, or empties the one that is there; at
\* is the file that the handle is on
open_wb(f, p, denied) ==
    LET c == StatPath(f, p) IN
    IF denied \/ c = NoPath \/ c = <<>> \/ IsDirAt(f, c)
    THEN [err |-> "OSError", fs |-> f, at |-> NoPath]
    ELSE [err |-> "", fs |-> With(f, c :> FileNode(<<>>)), at |-> c]

\* bytes that no write has set
Hole == <<0, 0>>

\* buffer.write(contents) of the chunk after the n the handle has written: it
\* goes to the handle's own offset, whatever the file holds by now
write_at(f, c, n, contents) ==
    IF ~IsFileAt(f, c) THEN f
    ELSE LET data == f[c].data
             len == IF Len(data) > n + 1 THEN Len(data) ELSE n + 1
         IN  With(f, c :> FileNode([k \in 1..len |->
                                       IF k = n + 1 THEN contents
                                       ELSE IF k <= Len(data) THEN data[k]
                                       ELSE Hole]))

(***************************************************************************)
(* api/v1/media.py: the library scans.                                     *)
(***************************************************************************)
ALLOWED_POSTER_EXTENSIONS ==
    {<<".", "j", "p", "g">>, <<".", "j", "p", "e", "g">>, <<".", "p", "n", "g">>,
     <<".", "w", "e", "b", "p">>}

\* PurePath.suffix: from the last dot, unless the name begins or ends with it
suffix(name) ==
    LET i == Rfind(name, ".") IN
    IF 1 < i /\ i < Len(name) THEN SubSeq(name, i, Len(name)) ELSE <<>>

\* get_media_path: the category directory, made when it is not there
get_media_path(f, media_type) ==
    LET media_dir == Resolve(f, PathJoin(MEDIA_ROOT_PATH, PathOf(media_type))) IN
    IF ~StartsWith(PathStr(media_dir), PathStr(Resolve(f, MEDIA_ROOT_PATH)))
    THEN [status |-> 500, fs |-> f, path |-> NoPath]
    ELSE IF IsDir(f, media_dir) THEN [status |-> 200, fs |-> f, path |-> media_dir.parts]
    ELSE LET mk == makedirs(f, media_dir.parts) IN
         IF mk.err # "" THEN [status |-> 500, fs |-> mk.fs, path |-> NoPath]
         ELSE [status |-> 200, fs |-> mk.fs, path |-> media_dir.parts]

\* the first image file os.scandir gives for a folder, or <<>>
FirstImage(f, folder, asc) ==
    LET names == ScanDir(f, folder, asc)
        hits == {i \in DOMAIN names :
                    /\ IsFile(f, AbsPath(Append(folder, names[i])))
                    /\ Lower(suffix(names[i])) \in ALLOWED_POSTER_EXTENSIONS}
    IN  IF hits = {} THEN <<>>
        ELSE names[CHOOSE i \in hits : \A j \in hits : i <= j]

\* get_anime_library, get_movie_library: the subfolders that hold an image,
\* sorted by title
get_titled_library(f, media_type, asc) ==
    LET d == get_media_path(f, media_type) IN
    IF d.status # 200 THEN [status |-> d.status, fs |-> d.fs, items |-> <<>>]
    ELSE LET folders == {n \in {Last(p) : p \in Children(d.fs, d.path)} :
                            /\ IsDir(d.fs, AbsPath(Append(d.path, n)))
                            /\ FirstImage(d.fs, StatPath(d.fs, AbsPath(Append(d.path, n))), asc) # <<>>}
             titles == Ascending(folders)
         IN  [status |-> 200, fs |-> d.fs,
              items |-> [i \in DOMAIN titles |->
                  [title |-> titles[i],
                   poster_url |-> <<media_type, titles[i],
                       FirstImage(d.fs, StatPath(d.fs, AbsPath(Append(d.path, titles[i]))), asc)>>]]]

\* get_photo_library: the image files of the category directory, as scanned
get_photo_library(f, media_type, asc) ==
    LET d == get_media_path(f, media_type) IN
    IF d.status # 200 THEN [status |-> d.status, fs |-> d.fs, items |-> <<>>]
    ELSE LET names == ScanDir(d.fs, d.path, asc)
             photos == SelectSeq(names, LAMBDA n :
                          /\ IsFile(d.fs, AbsPath(Append(d.path, n)))
                          /\ Lower(suffix(n)) \in ALLOWED_POSTER_EXTENSIONS)
         IN  [status |-> 200, fs |-> d.fs,
              items |-> [i \in DOMAIN photos |->
                  [src_url |-> <<media_type, photos[i]>>,
                   thumbnail_url |-> <<media_type, photos[i]>>]]]

(***************************************************************************)
(* The requests the model sends.                                           *)
(***************************************************************************)
BrowsePaths ==
    {<<>>, Dot, <<"a">>, <<"b">>, <<"f">>, <<"l">>, DotDot,
     <<"a", "/">>, <<".", "/", "a">>, <<"a", "/", "f">>, <<"a", "/", "/", "f">>,
     <<"a", "/", ".", ".">>, <<"a", "/", ".", ".", "/", "a">>,
     <<"b", "/", ".", ".", "/", "a">>, <<"a", "/", ".", ".", "/", ".", ".">>,
     <<"a", "/", "b">>, <<"l", "/", "s">>, <<"l", "/", ".", ".">>,
     <<"/">>, <<"/", "m">>, <<"/", "m", "/", "a">>,
     <<".", ".", "/", "m", "x">>, <<".", ".", "/", "m">>, <<".", ".", "a">>}

MkdirPaths == {Dot, <<"a">>, <<"l">>, <<"f">>}
FolderNames == {<<"b">>, <<"B">>, <<"a">>, <<"A">>, Dot, DotDot, <<"a", "/", "b">>}

DeletePaths == {Dot, <<"a">>, <<"l">>, <<".", ".", "/", "m", "x">>}
DeleteNames ==
    {<<"a">>, <<"f">>, <<"l">>, Dot, <<>>, DotDot,
     <<".", ".", "/", "m", "x", "/", "s">>, <<"/", "m", "x">>}

MoveSrcPaths == {Dot, <<"a">>}
MoveDstPaths == {Dot, <<"a">>, <<"b">>, <<"l">>}
MoveNames == {<<"f">>, <<"a">>, <<"l">>}

Anime == <<"A", "n", "i", "m", "e">>
Movies == <<"M", "o", "v", "i", "e", "s">>
Photos == <<"P", "h", "o", "t", "o", "s">>

UploadPaths == {Dot, <<"l">>, <<"f">>, DotDot}
VideoName == <<"v", ".", "m", "k", "v">>
VideoName2 == <<"w", ".", "M", "K", "V">>
Batches ==
    {<<<<"g">>>>, <<<<"l">>>>, <<<<"f">>, <<"g">>>>, <<<<"g">>, <<"g">>>>,
     <<VideoName, <<"g">>>>, <<VideoName, VideoName2>>,
     <<<<".", ".", "/", "m", "x", "/", "g">>>>}
VideoBatches == {<<VideoName, <<"g">>>>, <<VideoName, VideoName2>>}
Titles == {<<"T">>, <<"a">>, DotDot, <<"?">>}

\* what two uploads handled at the same time are sent
RaceUploadPaths == {Dot, <<"f">>}
RaceNames == {<<"g">>, VideoName}

\* the byte stream of the i-th file of a batch
StreamOf(i) == [k \in 1..ChunksPerItem |-> <<i, k>>]

\* what the world does to one uploaded file
Worlds ==
    {w \in [raises : BOOLEAN, guess : {"title", "notitle"}, match : Titles \cup {<<>>},
            poster : BOOLEAN, fetch : BOOLEAN, os : {"ok", "EACCES"},
            written : 0..ChunksPerItem] :
        /\ w.raises => w.guess = "notitle" /\ w.os = "ok" /\ w.written = ChunksPerItem
        /\ w.guess = "notitle" => w.match = <<>>
        /\ w.match = <<>> => ~w.poster
        /\ ~w.poster => ~w.fetch
        /\ w.os = "EACCES" => w.written = ChunksPerItem}

\* what the world does to an upload that is handled next to another one
RaceWorlds ==
    {w \in Worlds : /\ ~w.raises /\ w.os = "ok"
                    /\ w.match \in {<<>>, <<"T">>}
                    /\ w.poster = (w.match # <<>>) /\ w.fetch = w.poster
                    /\ w.guess = "title" => w.match # <<>>
                    /\ w.written >= ChunksPerItem - 1}

(***************************************************************************)
(* The state: the filesystem, the last request with its response, the      *)
(* upload request in progress, the number of requests so far, and the      *)
(* requests that two server processes handle at the same time.             *)
(***************************************************************************)
\* what is outside MediaRoot: a sibling whose name begins with MediaRoot's, and
\* an unrelated directory
Outside ==
    (<<>> :> DirNode)
    @@ (<<<<"m", "x">>>> :> DirNode)
    @@ (<<<<"m", "x">>, <<"s">>>> :> FileNode(<<"secret">>))
    @@ (<<<<"x">>>> :> DirNode)

\* where the link under MediaRoot points: outside, inside, or at nothing
LinkTargets == {<<<<"m", "x">>>>, <<<<"x">>>>, <<<<"m">>, <<"a">>>>, <<<<"x">>, <<"n">>>>}

Layout(t) ==
    Outside
    @@ (<<<<"m">>>> :> DirNode)
    @@ (<<<<"m">>, <<"a">>>> :> DirNode)
    @@ (<<<<"m">>, <<"a">>, <<"f">>>> :> FileNode(<<"af">>))
    @@ (<<<<"m">>, <<"a">>, <<"l">>>> :> FileNode(<<"al">>))
    @@ (<<<<"m">>, <<"f">>>> :> FileNode(<<"rf">>))
    @@ (<<<<"m">>, <<"l">>>> :> LinkNode(t))

NoRequest ==
    [op |-> "none", req |-> [path |-> <<>>], status |-> 0, detail |-> "",
     real |-> NoPath, items |-> <<>>]

Idle ==
    [active |-> FALSE, base |-> <<>>, files |-> <<>>, idx |-> 0, details |-> <<>>]

\* the two server processes that handle concurrent requests, and a process
\* that has no request
Workers == {1, 2}

NoWork ==
    [op |-> "none", req |-> [path |-> <<>>], pc |-> "idle", status |-> 0,
     detail |-> "", path |-> NoPath, ctx |-> <<>>, n |-> 0]

Init ==
    /\ \E t \in LinkTargets : fs = Layout(t)
    /\ last = NoRequest
    /\ up = Idle
    /\ nops = 0
    /\ procs = [i \in Workers |-> NoWork]

Answer(op, req, r) ==
    [op |-> op, req |-> req, status |-> r.status, detail |-> r.detail,
     real |-> NoPath, items |-> <<>>]

Browse ==
    /\ ~up.active /\ nops < MaxOps
    /\ \E path \in BrowsePaths, asc \in BOOLEAN :
        LET r == browse_directory(fs, path, asc) IN
        last' = [op |-> "browse", req |-> [path |-> path], status |-> r.status,
                 detail |-> r.detail, real |-> r.real, items |-> r.items]
    /\ nops' = nops + 1
    /\ UNCHANGED <<fs, up, procs>>

Mkdir ==
    /\ ~up.active /\ nops < MaxOps
    /\ \E path \in MkdirPaths, folder_name \in FolderNames, os \in {"ok", "EACCES"} :
        LET req == [path |-> path, folder_name |-> folder_name]
            r == create_directory(fs, req, [os |-> os, asc |-> TRUE])
        IN  /\ fs' = r.fs
            /\ last' = Answer("mkdir", req, r)
    /\ nops' = nops + 1
    /\ UNCHANGED <<up, procs>>

Delete ==
    /\ ~up.active /\ nops < MaxOps
    /\ \E path \in DeletePaths, name \in DeleteNames, is_dir \in BOOLEAN,
          os \in {"ok", "EACCES"} :
        LET req == [path |-> path, name |-> name, is_dir |-> is_dir]
            r == delete_entry(fs, req, [os |-> os, asc |-> TRUE])
        IN  /\ fs' = r.fs
            /\ last' = Answer("delete", req, r)
    /\ nops' = nops + 1
    /\ UNCHANGED <<up, procs>>

MoveCopy ==
    /\ ~up.active /\ nops < MaxOps
    /\ \E src_path \in MoveSrcPaths, dst_path \in MoveDstPaths, name \in MoveNames,
          is_dir \in BOOLEAN, mode \in {"copy", "cut"},
          os \in {"ok", "EACCES", "ENOSPC"}, asc \in BOOLEAN :
        LET req == [src_path |-> src_path, dst_path |-> dst_path, name |-> name,
                    is_dir |-> is_dir, mode |-> mode]
            r == move_or_copy(fs, req, [os |-> os, asc |-> asc])
        IN  /\ fs' = r.fs
            /\ last' = Answer("move_copy", req, r)
    /\ nops' = nops + 1
    /\ UNCHANGED <<up, procs>>

\* upload_files up to the loop: the destination is resolved and checked
UploadStart(paths, batches) ==
    /\ ~up.active
    /\ \E path \in paths, files \in batches :
        LET req == [path |-> path, files |-> files]
            r == get_real_path(fs, path)
        IN  /\ nops + Len(files) <= MaxOps
            /\ nops' = nops + Len(files)
            /\ IF r.status # 200
               THEN /\ last' = Answer("upload", req, r)
                    /\ up' = Idle
               ELSE IF ~IsDirAt(fs, r.path)
               THEN /\ last' = Answer("upload", req,
                                      HTTPException(400, "Target path is not a directory"))
                    /\ up' = Idle
               ELSE /\ last' = [op |-> "upload", req |-> req, status |-> 0, detail |-> "",
                                real |-> r.path, items |-> <<>>]
                    /\ up' = [active |-> TRUE, base |-> r.path, files |-> files,
                              idx |-> 1, details |-> <<>>]
    /\ UNCHANGED <<fs, procs>>

UploadBegin == UploadStart(UploadPaths, Batches)

\* an upload of video files
UploadVideos == UploadStart(UploadPaths, VideoBatches)

\* one pass of the loop of upload_files; an exception that leaves the loop
\* becomes the 500 of the outer handler
UploadItem ==
    /\ up.active /\ up.idx <= Len(up.files)
    /\ \E world \in Worlds :
        LET filename == up.files[up.idx]
            r == upload_item(fs, AbsPath(up.base), filename, StreamOf(up.idx), world)
            d == [filename |-> filename, outcome |-> r.outcome, entry |-> r.entry,
                  target |-> r.target,
                  recognized |-> r.recognized, closed |-> r.closed, lookup |-> r.lookup,
                  made_dir |-> r.made_dir, fetched |-> r.fetched, chunks |-> r.chunks]
        IN  /\ fs' = r.fs
            /\ IF r.abort
               THEN /\ last' = [last EXCEPT !.status = 500,
                                            !.detail = "Unexpected error during upload",
                                            !.items = up.details]
                    /\ up' = Idle
               ELSE /\ up' = [up EXCEPT !.idx = up.idx + 1,
                                        !.details = Append(up.details, d)]
                    /\ UNCHANGED last
    /\ UNCHANGED <<nops, procs>>

\* the return of upload_files
UploadEnd ==
    /\ up.active /\ up.idx > Len(up.files)
    /\ last' = [last EXCEPT !.status = 200, !.detail = "Upload processing complete",
                            !.items = up.details]
    /\ up' = Idle
    /\ UNCHANGED <<fs, nops, procs>>

\* a library scan: GET /anime, /movies or /photos
Scan ==
    /\ ~up.active /\ nops < MaxOps
    /\ \E media_type \in {Anime, Movies, Photos}, asc \in BOOLEAN :
        LET r == IF media_type = Photos THEN get_photo_library(fs, media_type, asc)
                 ELSE get_titled_library(fs, media_type, asc)
        IN  /\ fs' = r.fs
            /\ last' = [op |-> "scan", req |-> [path |-> media_type], status |-> r.status,
                        detail |-> "", real |-> NoPath, items |-> r.items]
    /\ nops' = nops + 1
    /\ UNCHANGED <<up, procs>>

(***************************************************************************)
(* Requests that two server processes handle at the same time.  A process  *)
(* takes a request, runs the checks of its handler in one step and makes   *)
(* its change of the filesystem in a later one.                            *)
(***************************************************************************)
NoneAtWork == ~up.active /\ \A i \in Workers : procs[i].pc = "idle"

Work(op, req) == [NoWork EXCEPT !.op = op, !.req = req, !.pc = "check"]

\* the answer of a handler
Answered(w, r) == [w EXCEPT !.pc = "done", !.status = r.status, !.detail = r.detail]

\* two mkdir requests with the same parent and folder name arrive together
RaceMkdir ==
    /\ NoneAtWork
    /\ \E path \in MkdirPaths, folder_name \in FolderNames :
        procs' = [i \in Workers |->
                     Work("mkdir", [path |-> path, folder_name |-> folder_name])]
    /\ UNCHANGED <<fs, last, up, nops>>

\* a process runs the checks of create_directory
MkdirCheck ==
    /\ \E i \in Workers :
        /\ procs[i].op = "mkdir" /\ procs[i].pc = "check"
        /\ LET r == create_directory_checks(fs, procs[i].req) IN
           procs' = [procs EXCEPT ![i] =
                        IF r.status # 0 THEN Answered(@, r)
                        ELSE [@ EXCEPT !.pc = "create", !.path = r.path]]
    /\ UNCHANGED <<fs, last, up, nops>>

\* a process creates the directory its checks let through
MkdirCreate ==
    /\ \E i \in Workers, os \in {"ok", "EACCES"} :
        /\ procs[i].op = "mkdir" /\ procs[i].pc = "create"
        /\ LET r == create_directory_creates(fs, procs[i].path, [os |-> os, asc |-> TRUE]) IN
           /\ fs' = r.fs
           /\ procs' = [procs EXCEPT ![i] = Answered(@, r)]
    /\ UNCHANGED <<last, up, nops>>

\* a mkdir request and a delete request arrive together
RaceMkdirDelete ==
    /\ NoneAtWork
    /\ \E path \in MkdirPaths, folder_name \in FolderNames,
          dpath \in DeletePaths, name \in DeleteNames, is_dir \in BOOLEAN :
        procs' = [i \in Workers |->
                     IF i = 1
                     THEN Work("mkdir", [path |-> path, folder_name |-> folder_name])
                     ELSE Work("delete", [path |-> dpath, name |-> name, is_dir |-> is_dir])]
    /\ UNCHANGED <<fs, last, up, nops>>

\* a process runs the checks of delete_entry
DeleteCheck ==
    /\ \E i \in Workers :
        /\ procs[i].op = "delete" /\ procs[i].pc = "check"
        /\ LET r == delete_entry_checks(fs, procs[i].req) IN
           procs' = [procs EXCEPT ![i] =
                        IF r.status # 0 THEN Answered(@, r)
                        ELSE [@ EXCEPT !.pc = "remove", !.path = r.path]]
    /\ UNCHANGED <<fs, last, up, nops>>

\* a process removes the target its checks let through
DeleteRemove ==
    /\ \E i \in Workers, os \in {"ok", "EACCES"} :
        /\ procs[i].op = "delete" /\ procs[i].pc = "remove"
        /\ LET r == delete_entry_removes(fs, procs[i].path, [os |-> os, asc |-> TRUE]) IN
           /\ fs' = r.fs
           /\ procs' = [procs EXCEPT ![i] = Answered(@, r)]
    /\ UNCHANGED <<last, up, nops>>

\* two copy or move requests for the same destination directory and name
\* arrive together
RaceCopy ==
    /\ NoneAtWork
    /\ \E dst_path \in MoveDstPaths, name \in MoveNames, is_dir \in BOOLEAN,
          src_paths \in [Workers -> MoveSrcPaths], modes \in [Workers -> {"copy", "cut"}] :
        procs' = [i \in Workers |->
                     Work("move_copy", [src_path |-> src_paths[i], dst_path |-> dst_path,
                                        name |-> name, is_dir |-> is_dir, mode |-> modes[i]])]
    /\ UNCHANGED <<fs, last, up, nops>>

\* a process runs the checks of move_or_copy; ctx keeps the source and, of a
\* file, the bytes it has now
MoveCheck ==
    /\ \E i \in Workers :
        /\ procs[i].op = "move_copy" /\ procs[i].pc = "check"
        /\ LET r == move_or_copy_checks(fs, procs[i].req) IN
           procs' = [procs EXCEPT ![i] =
                        IF r.status # 0 THEN Answered(@, r)
                        ELSE [@ EXCEPT !.pc = "act", !.path = r.path[2],
                                       !.ctx = [src |-> r.path[1],
                                                data |-> IF IsFile(fs, AbsPath(r.path[1]))
                                                         THEN fs[StatPath(fs, AbsPath(r.path[1]))].data
                                                         ELSE <<>>]]]
    /\ UNCHANGED <<fs, last, up, nops>>

\* process i has the response r of its handler and the filesystem r leaves
Moved(i, r) ==
    /\ fs' = r.fs
    /\ procs' = [procs EXCEPT ![i] = Answered(@, r)]

\* a process copies or moves what its checks let through
MoveAct ==
    /\ \E i \in Workers, os \in {"ok", "EACCES", "ENOSPC"} :
        /\ procs[i].op = "move_copy" /\ procs[i].pc = "act"
        /\ Moved(i, move_or_copy_acts(fs, AbsPath(procs[i].ctx.src), AbsPath(procs[i].path),
                                      procs[i].req, [os |-> os, asc |-> TRUE]))
    /\ UNCHANGED <<last, up, nops>>

\* two uploads of one file each, with the same destination and file name,
\* arrive together
RaceUpload ==
    /\ NoneAtWork
    /\ \E path \in RaceUploadPaths, filename \in RaceNames,
          worlds \in [Workers -> RaceWorlds] :
        procs' = [i \in Workers |->
                     Work("upload", [path |-> path, filename |-> filename,
                                     world |-> worlds[i]])]
    /\ UNCHANGED <<fs, last, up, nops>>

\* process i has the result r of the checks of its upload
Checked(i, r) ==
    /\ fs' = r.fs
    /\ procs' = [procs EXCEPT ![i] =
                    IF r.status # 0 THEN Answered(@, r)
                    ELSE [@ EXCEPT !.pc = "open", !.path = r.path,
                                   !.ctx = [folder |-> r.folder, poster |-> r.poster,
                                            denied |-> r.denied]]]

\* a process resolves the destination, runs the recognition and checks the
\* target path
UpCheck ==
    /\ \E i \in Workers :
        /\ procs[i].op = "upload" /\ procs[i].pc = "check"
        /\ Checked(i, upload_checks(fs, procs[i].req.path, procs[i].req.filename,
                                    procs[i].req.world))
    /\ UNCHANGED <<last, up, nops>>

\* the outcome of the one file, in the success response
Outcome(w, text) == [w EXCEPT !.pc = "done", !.status = 200, !.detail = text]

\* a process opens the target file for writing
UpOpen ==
    /\ \E i \in Workers :
        /\ procs[i].op = "upload" /\ procs[i].pc = "open"
        /\ LET o == open_wb(fs, AbsPath(procs[i].path), procs[i].ctx.denied) IN
           /\ fs' = o.fs
           /\ procs' = [procs EXCEPT ![i] =
                           IF o.err # "" THEN Outcome(@, "failed")
                           ELSE [@ EXCEPT !.pc = "write", !.path = o.at]]
    /\ UNCHANGED <<last, up, nops>>

\* a process reads the next chunk of its stream and writes it
UpWrite ==
    /\ \E i \in Workers :
        /\ procs[i].op = "upload" /\ procs[i].pc = "write" /\ procs[i].n < ChunksPerItem
        /\ IF procs[i].n = procs[i].req.world.written
           THEN /\ procs' = [procs EXCEPT ![i] = Outcome(@, "failed")]
                /\ UNCHANGED fs
           ELSE /\ fs' = write_at(fs, procs[i].path, procs[i].n, StreamOf(i)[procs[i].n + 1])
                /\ procs' = [procs EXCEPT ![i].n = @ + 1]
    /\ UNCHANGED <<last, up, nops>>

\* the stream of a process is at its end: the poster, and the file is stored
UpFinish ==
    /\ \E i \in Workers :
        /\ procs[i].op = "upload" /\ procs[i].pc = "write" /\ procs[i].n = ChunksPerItem
        /\ LET dl == download_poster(fs, procs[i].ctx.poster, AbsPath(procs[i].ctx.folder),
                                     procs[i].req.world) IN
           /\ fs' = dl.fs
           /\ procs' = [procs EXCEPT ![i] = Outcome(@, "stored")]
    /\ UNCHANGED <<last, up, nops>>

Next ==
    \/ Scan
    \/ Browse
    \/ Mkdir
    \/ Delete
    \/ MoveCopy
    \/ UploadBegin
    \/ UploadItem
    \/ UploadEnd
    \/ RaceMkdir
    \/ MkdirCheck
    \/ MkdirCreate
    \/ RaceMkdirDelete
    \/ DeleteCheck
    \/ DeleteRemove
    \/ RaceCopy
    \/ MoveCheck
    \/ MoveAct
    \/ RaceUpload
    \/ UpCheck
    \/ UpOpen
    \/ UpWrite
    \/ UpFinish

Spec == Init /\ [][Next]_vars

\* the same machine with the requests of one kind only
NextResolve == Browse
SpecResolve == Init /\ [][NextResolve]_vars

NextMkdir == Mkdir \/ Browse
SpecMkdir == Init /\ [][NextMkdir]_vars

NextDelete == Delete
SpecDelete == Init /\ [][NextDelete]_vars

NextMove == MoveCopy
SpecMove == Init /\ [][NextMove]_vars

NextScan == Scan \/ Delete
SpecScan == Init /\ [][NextScan]_vars

NextVideos == UploadVideos \/ UploadItem \/ UploadEnd
SpecVideos == Init /\ [][NextVideos]_vars

NextUpload == UploadBegin \/ UploadItem \/ UploadEnd
SpecUpload == Init /\ [][NextUpload]_vars

NextMkdirRace == RaceMkdir \/ MkdirCheck \/ MkdirCreate
SpecMkdirRace == Init /\ [][NextMkdirRace]_vars

NextMkdirDelete ==
    RaceMkdirDelete \/ MkdirCheck \/ MkdirCreate \/ DeleteCheck \/ DeleteRemove
SpecMkdirDelete == Init /\ [][NextMkdirDelete]_vars

NextWriteRace ==
    \/ RaceCopy \/ MoveCheck \/ MoveAct
    \/ RaceUpload \/ UpCheck \/ UpOpen \/ UpWrite \/ UpFinish
SpecWriteRace == Init /\ [][NextWriteRace]_vars

(***************************************************************************)
(* Properties.                                                             *)
(***************************************************************************)
MediaRoot == MEDIA_ROOT_PATH.parts

\* p is MediaRoot or below it, component by component
InsideRoot(p) == IsPrefix(MediaRoot, p)

\* the components of a path string that name something or climb
Segments(s) == SelectSeq(Split(s), LAMBDA c : c # <<>> /\ c # Dot)

IsAbsolute(s) == s # <<>> /\ Head(s) = Slash

HasDotDot(s) == \E i \in DOMAIN Segments(s) : Segments(s)[i] = DotDot

\* some prefix of the path holds more ".." than names: it climbs above the
\* directory it starts from
ClimbsAbove(s) ==
    \E n \in DOMAIN Segments(s) :
        LET pre == SubSeq(Segments(s), 1, n) IN
        Len(SelectSeq(pre, LAMBDA c : c = DotDot)) > Len(SelectSeq(pre, LAMBDA c : c # DotDot))

\* browse_directory answered after get_real_path returned a path
Resolved == last.op = "browse" /\ last.real # NoPath

\* C1: whatever the path string and the layout, a path get_real_path returns
\* is MediaRoot or a descendant of it at a component boundary.
C1_ResolvedInsideRoot == Resolved => InsideRoot(last.real)

\* C2: after any sequence of requests nothing outside MediaRoot has been
\* created, modified or removed.
C2_OutsideUntouched ==
    \A p \in (DOMAIN fs) \cup (DOMAIN Outside) :
        ~InsideRoot(p) => p \in DOMAIN fs /\ p \in DOMAIN Outside /\ fs[p] = Outside[p]

\* C3: no delete request removes MediaRoot: it is rejected, and MediaRoot
\* still exists afterwards.
C3_RootSurvivesDelete ==
    last.op = "delete" => IsDirAt(fs, MediaRoot)

\* C4 as stated: an absolute path, or a path with a ".." component at any
\* place, makes get_real_path fail with 400 or 403.
C4_AnyDotDotRejected ==
    last.op = "browse" /\ (IsAbsolute(last.req.path) \/ HasDotDot(last.req.path))
        => last.status \in {400, 403} /\ last.real = NoPath

\* C4 amended: an absolute path, or a path whose ".." components climb above
\* the directory it starts from, makes get_real_path fail with 400 or 403.
C4_ClimbingRejected ==
    last.op = "browse" /\ (IsAbsolute(last.req.path) \/ ClimbsAbove(last.req.path))
        => last.status \in {400, 403} /\ last.real = NoPath

C4_Witness ==
    /\ last.op = "browse"
    /\ ~IsAbsolute(last.req.path)
    /\ ClimbsAbove(last.req.path)
    /\ ~StartsWith(last.req.path, DotDot)
    /\ last.status = 400

\* a pass of the upload loop that appended an outcome
ItemStep == up.active /\ up'.active /\ up'.idx = up.idx + 1

\* the outcome of the file processed last
LastItem == up.details[Len(up.details)]

\* C5: an uploaded file whose target path holds an entry is reported as
\* skipped and the filesystem is left as it was; no pass of the upload loop
\* changes or removes a file that existed before it.
C5_UploadNeverOverwrites ==
    [][/\ ItemStep /\ up'.details[up.idx].entry \in DOMAIN fs
            => up'.details[up.idx].outcome = "skipped" /\ fs' = fs
       /\ up.active
            => \A p \in DOMAIN fs : IsFileAt(fs, p) => p \in DOMAIN fs' /\ fs'[p] = fs[p]]_vars

\* the upload request has been answered after its destination was accepted
UploadAnswered == last.op = "upload" /\ last.real # NoPath /\ last.status # 0

\* C7: once the destination is accepted, whatever fails for one file, the
\* answer is the success response with one outcome for each file, in the order
\* of the request, and every file reported as stored is whole on disk.
C7_BatchNeverAborts ==
    UploadAnswered =>
        /\ last.status = 200
        /\ Len(last.items) = Len(last.req.files)
        /\ \A i \in DOMAIN last.items :
            /\ last.items[i].filename = last.req.files[i]
            /\ last.items[i].outcome = "stored"
                => /\ IsFileAt(fs, last.items[i].target)
                   /\ fs[last.items[i].target].data = StreamOf(i)

\* C8: when a write fails after some chunks were written, no file is at the
\* target path when the file is reported as failed.
C8_NoPartialFile ==
    up.active /\ up.details # <<>> /\ LastItem.outcome = "failed" /\ LastItem.chunks > 0
        => LastItem.target \notin DOMAIN fs

\* a move_copy request is answered in this step
MoveStep == last'.op = "move_copy" /\ nops' = nops + 1

\* the source and the destination of a move_copy request, as pathlib joins them
SrcOf(f, req) == PathJoin(AbsPath(resolve_sub(f, req.src_path).path), PathOf(req.name))
DstOf(f, req) == PathJoin(AbsPath(resolve_sub(f, req.dst_path).path), PathOf(req.name))

\* the destination directory holds an entry of the name, whatever its kind
DstOccupied(f, req) ==
    /\ resolve_sub(f, req.dst_path).status = 200
    /\ LStatPath(f, DstOf(f, req)) \in DOMAIN f

SrcAsStated(f, req) ==
    /\ resolve_sub(f, req.src_path).status = 200
    /\ IF req.is_dir THEN IsDir(f, SrcOf(f, req)) ELSE IsFile(f, SrcOf(f, req))

RefusedAsOccupied(r) ==
    r.status = 400 /\ r.detail = "Destination already exists (Overwrite not supported)"

\* C6: a move_copy request for a source that exists with the kind is_dir
\* states, whose destination directory holds an entry of that name, fails
\* with the destination-exists error and changes nothing.
C6_OccupiedRefused ==
    [][MoveStep /\ SrcAsStated(fs, last'.req) /\ DstOccupied(fs, last'.req)
          => RefusedAsOccupied(last') /\ fs' = fs]_vars

\* C9: after a successful mkdir, a mkdir with the same parent and name is
\* answered 409, and a browse of the parent lists the name as a directory.
C9_SecondMkdirConflicts ==
    [][/\ last.op = "mkdir" /\ last.status = 200 /\ nops' = nops + 1
            /\ last'.op = "mkdir" /\ last'.req = last.req
            => last'.status = 409 /\ fs' = fs
       /\ last.op = "mkdir" /\ last.status = 200 /\ nops' = nops + 1
            /\ last'.op = "browse" /\ last'.req.path = last.req.path
            => /\ last'.status = 200
               /\ \E i \in DOMAIN last'.items :
                    /\ last'.items[i].name = last.req.folder_name
                    /\ last'.items[i].is_dir]_vars

\* C10: a successful delete with is_dir removes the directory and all below
\* it, leaves every other entry as it was, and a browse of the parent does
\* not list the deleted name.
DeleteTarget(f, req) ==
    StatPath(f, PathJoin(AbsPath(MediaRoot \o PathOf(req.path).parts), PathOf(req.name)))

C10_DeleteRemovesSubtree ==
    [][last'.op = "delete" /\ nops' = nops + 1 /\ last'.status = 200 /\ last'.req.is_dir
          => /\ IsDirAt(fs, DeleteTarget(fs, last'.req))
             /\ fs' = Without(fs, Under(fs, DeleteTarget(fs, last'.req)))
             /\ \A asc \in BOOLEAN :
                  \A i \in DOMAIN browse_directory(fs', last'.req.path, asc).items :
                      browse_directory(fs', last'.req.path, asc).items[i].name # last'.req.name]_vars

\* a directory that held a file has been deleted, and its siblings remain
C10_Witness ==
    /\ last.op = "delete" /\ last.status = 200 /\ last.req.is_dir
    /\ last.req.path = Dot /\ last.req.name = <<"a">>
    /\ <<<<"m">>, <<"a">>, <<"f">>>> \notin DOMAIN fs
    /\ <<<<"m">>, <<"a">>>> \notin DOMAIN fs
    /\ IsFileAt(fs, <<<<"m">>, <<"f">>>>)
    /\ browse_directory(fs, Dot, TRUE).status = 200

\* what is at canonical path c and below it: each node with its path from c
TreeAt(f, c) ==
    {<<SubSeq(p, Len(c) + 1, Len(p)), f[p]>> : p \in Under(f, c)}

\* a move_copy request answered with success
MoveDone(mode) == MoveStep /\ last'.status = 200 /\ last'.req.mode = mode

C12_FailedCopyLeavesNoLeftover ==
    [][(last.op = "move_copy" /\ last.status = 500 /\ MoveStep /\ last'.req = last.req)
          => ~RefusedAsOccupied(last')]_vars

\* the file the upload loop has just processed, and its outcome
ItemName == up.files[up.idx]
ItemOutcome == up'.details[up.idx]

\* the directories a step has made
NewDirs == {p \in (DOMAIN fs') \ (DOMAIN fs) : IsDirAt(fs', p)}

\* C13: a video file for which the analysis gives no title is stored directly
\* in the destination directory and reported as unrecognized, and the upload
\* makes no directory for it.
C13_UnrecognizedStaysInPlace ==
    [][ItemStep /\ is_video_file(ItemName) /\ ~ItemOutcome.recognized
          => /\ ~ItemOutcome.made_dir
             /\ NewDirs = {}
             /\ ItemOutcome.entry = Append(up.base, ItemName)
             /\ ItemOutcome.outcome = "stored"
                  => /\ IsFileAt(fs', Append(up.base, ItemName))
                     /\ fs'[Append(up.base, ItemName)].data = StreamOf(up.idx)]_vars

\* a video file whose title was guessed and not matched has been stored in
\* the destination directory
C13_Witness ==
    /\ up.active /\ up.details # <<>>
    /\ is_video_file(LastItem.filename)
    /\ LastItem.lookup /\ ~LastItem.recognized
    /\ LastItem.outcome = "stored"
    /\ IsFileAt(fs, Append(up.base, LastItem.filename))

\* C14: a video file for which the collaborator returns a title T, once
\* stored, is at <destination>/<sanitized T>/<filename>, and nothing of it is
\* directly in the destination directory.
C14_RecognizedGoesToTitleFolder ==
    [][ItemStep /\ is_video_file(ItemName) /\ ItemOutcome.recognized
               /\ ItemOutcome.outcome = "stored"
          => /\ \E T \in Titles :
                  /\ Sanitize(T) # <<>>
                  /\ ItemOutcome.target = up.base \o <<Sanitize(T), ItemName>>
             /\ IsFileAt(fs', ItemOutcome.target)
             /\ fs'[ItemOutcome.target].data = StreamOf(up.idx)
             /\ IF Append(up.base, ItemName) \in DOMAIN fs
                THEN /\ Append(up.base, ItemName) \in DOMAIN fs'
                     /\ fs'[Append(up.base, ItemName)] = fs[Append(up.base, ItemName)]
                ELSE Append(up.base, ItemName) \notin DOMAIN fs']_vars

\* the folder an item of the batch in progress was stored in, and the items
\* stored in one folder after recognition
FolderOf(d) == Front(d.target)
InTitleFolder(d) == d.recognized /\ d.outcome = "stored"
FetchesFor(folder) ==
    {k \in DOMAIN up.details :
        /\ InTitleFolder(up.details[k])
        /\ FolderOf(up.details[k]) = folder
        /\ up.details[k].fetched}

\* C15 as stated: when two recognized video files of a batch are stored in
\* the same title folder, the poster is requested once and not again.
C15_PosterFetchedOnce ==
    \A i, j \in DOMAIN up.details :
        (/\ i < j
         /\ InTitleFolder(up.details[i]) /\ InTitleFolder(up.details[j])
         /\ FolderOf(up.details[i]) = FolderOf(up.details[j]))
            => Cardinality(FetchesFor(FolderOf(up.details[i]))) <= 1

\* where the poster of the item just processed belongs
PosterAt == Append(Front(ItemOutcome.entry), PosterName)

\* C15 amended: for an item whose folder holds poster.jpg, the poster is not
\* requested and the poster file is left as it was.
C15_PosterNotRefetched ==
    [][(ItemStep /\ ItemOutcome.entry # NoPath /\ IsFileAt(fs, PosterAt))
          => /\ ~ItemOutcome.fetched
             /\ IsFileAt(fs', PosterAt)
             /\ fs'[PosterAt] = fs[PosterAt]]_vars

\* two video files went to one title folder: the poster was requested for the
\* first and is there, and it was not requested for the second
C15_Witness ==
    /\ Len(up.details) = 2
    /\ InTitleFolder(up.details[1]) /\ InTitleFolder(up.details[2])
    /\ FolderOf(up.details[1]) = FolderOf(up.details[2])
    /\ up.details[1].fetched /\ ~up.details[2].fetched
    /\ IsFileAt(fs, Append(FolderOf(up.details[1]), PosterName))

\* browse_directory was asked for a directory that get_real_path accepted
BrowsedDir == last.op = "browse" /\ last.real # NoPath /\ IsDirAt(fs, last.real)

\* the items are one for each entry of the directory
OnePerEntry(items, d) ==
    /\ Len(items) = Cardinality(Children(fs, d))
    /\ {items[i].name : i \in DOMAIN items} = {Last(p) : p \in Children(fs, d)}

\* directories first, and in each group the names ascending without regard
\* to case
InListingOrder(items) ==
    \A i, j \in DOMAIN items :
        i < j => /\ items[j].is_dir => items[i].is_dir
                 /\ items[i].is_dir = items[j].is_dir
                      => ~StrLess(Lower(items[j].name), Lower(items[i].name))

\* C16: the browse of a directory returns one item for each of its entries,
\* directories before files, each group ordered by name without regard to
\* case, and directories with size 0.
C16_BrowseListsAll ==
    BrowsedDir =>
        /\ last.status = 200
        /\ OnePerEntry(last.items, last.real)
        /\ InListingOrder(last.items)
        /\ \A i \in DOMAIN last.items : last.items[i].is_dir => last.items[i].size = 0

\* the path string of a canonical path, and its path string from MediaRoot
AbsStr(q) == PathStr(AbsPath(q))
RelStr(q) ==
    IF InsideRoot(q) THEN PathStr([abs |-> FALSE, parts |-> SubSeq(q, Len(MediaRoot) + 1, Len(q))])
    ELSE <<".", ".", "/">> \o JoinSlash(q)

BadLeaf(n) == Contains(n, <<Slash>>) \/ HasDotDot(n)

\* C18: a folder_name, a delete name or an uploaded filename that holds a
\* separator or a parent-directory component is rejected (a folder_name with
\* 400, a delete name with an error, a filename by not storing the item), and
\* the request or the item leaves the filesystem as it was.
C18_BadLeafRejected ==
    [][/\ (last'.op = "mkdir" /\ nops' = nops + 1 /\ BadLeaf(last'.req.folder_name))
            => last'.status = 400 /\ fs' = fs
       /\ (last'.op = "delete" /\ nops' = nops + 1 /\ BadLeaf(last'.req.name))
            => last'.status # 200 /\ fs' = fs
       /\ (ItemStep /\ BadLeaf(ItemName))
            => ItemOutcome.outcome # "stored" /\ fs' = fs]_vars

\* C19: a library scan leaves the filesystem as it was, also when the
\* category directory is not there.
C19_ScanReadOnly ==
    [][(last'.op = "scan" /\ nops' = nops + 1) => fs' = fs]_vars

\* C20: for an uploaded file reported as skipped or failed, no metadata lookup
\* was made and no title folder was created.
C20_RecognitionOnlyForStored ==
    [][(ItemStep /\ ItemOutcome.outcome \in {"skipped", "failed"})
          => /\ ~ItemOutcome.lookup
             /\ ~ItemOutcome.made_dir
             /\ NewDirs = {}]_vars

\* C21: when a pass of the upload loop has appended an outcome for a file
\* (stored, skipped or failed), the file's byte stream has been closed.
C21_StreamClosedPerItem ==
    [][ItemStep => ItemOutcome.closed]_vars

\* both processes have answered their mkdir request
MkdirRaceOver == \A i \in Workers : procs[i].op = "mkdir" /\ procs[i].pc = "done"

\* C22: when two mkdir requests with the same parent and folder name are
\* handled at the same time, one of them succeeds and no creation is denied
\* for permissions, then the other is answered with the conflict status 409
\* and the directory exists.
C22_RacingMkdirOneConflict ==
    (/\ MkdirRaceOver
     /\ \E i \in Workers : procs[i].status = 200
     /\ \A i \in Workers : procs[i].status # 403)
        => \E i \in Workers :
              /\ procs[i].status = 200
              /\ procs[3 - i].status = 409
              /\ IsDirAt(fs, procs[i].path)

\* process i makes the directory of its mkdir request in this step
MkdirCreates(i) ==
    procs[i].op = "mkdir" /\ procs[i].pc = "create" /\ procs'[i].pc = "done"

\* C24: the creation step of a mkdir request adds to the filesystem nothing
\* but the leaf directory that its checks computed inside the parent, also
\* when a delete request handled at the same time removed the parent after the
\* checks.
C24_MkdirCreatesOnlyLeaf ==
    [][\A i \in Workers :
          MkdirCreates(i) => (DOMAIN fs') \ (DOMAIN fs) \subseteq {procs[i].path}]_vars

\* both processes have answered a request that writes a file or a tree
WriteRaceOver ==
    \A i \in Workers : procs[i].op \in {"upload", "move_copy"} /\ procs[i].pc = "done"

\* the request of process i reports success
Succeeded(i) ==
    procs[i].status = 200 /\ procs[i].detail \in {"stored", "Operation successful"}

\* the bytes the request of process i was to put at the path
SourceBytes(i) == IF procs[i].op = "upload" THEN StreamOf(i) ELSE procs[i].ctx.data

\* C23: when two uploads of the same file name to the same directory, or two
\* copies or moves to the same destination name, handled at the same time have
\* both been answered, at most one of them reports success, and a file at the
\* path of a request that reports success holds the bytes of that request.
C23_OneWriterWins ==
    WriteRaceOver =>
        /\ ~(Succeeded(1) /\ Succeeded(2))
        /\ \A i \in Workers :
              (Succeeded(i) /\ IsFileAt(fs, procs[i].path))
                  => fs[procs[i].path].data = SourceBytes(i)

\* the directory that holds the file an item was stored as
StoredIn(d) == Front(d.entry)

\* a name that none of the characters the sanitization removes occurs in
NoIllegalChar(name) == \A k \in DOMAIN name : name[k] \notin IllegalChars

\* C25: a recognized video file that is stored, whatever title the
\* collaborator returned, is stored in a directory directly inside the
\* destination directory of the batch, whose name has none of the characters
\* \ / : * ? " < > | ; not in the destination directory itself and not
\* outside it.
C25_TitleFolderIsChild ==
    [][(ItemStep /\ ItemOutcome.recognized /\ ItemOutcome.outcome = "stored")
          => /\ StoredIn(ItemOutcome) # <<>>
             /\ Front(StoredIn(ItemOutcome)) = up.base
             /\ NoIllegalChar(Last(StoredIn(ItemOutcome)))]_vars

\* C26: the items of a successful browse are in the order that the request
\* gives for the same directory under every order in which the operating
\* system enumerates the entries, also when two names of one kind differ in
\* letter case only.
C26_BrowseOrderFromContents ==
    (BrowsedDir /\ last.status = 200)
        => \A asc \in BOOLEAN : browse_directory(fs, last.req.path, asc).items = last.items

====
